---- MODULE Spec2Model ----
(***************************************************************************)
(* Roster engine of the laboratory duty-roster server (src/main.py):       *)
(* RosterEngine.is_on_leave, RosterEngine.get_days_in_month,               *)
(* RosterEngine.generate (night phase, preference fill, statistics) and    *)
(* the validate_roster rule checker.                                       *)
(*                                                                         *)
(* Python values are modelled as follows.                                  *)
(*   None            the string "None" (no duty code is spelled so)        *)
(*   str (ISO date)  a sequence of ten one-character strings               *)
(*   datetime.date   a record [year, month, day]                           *)
(*   list            a sequence; Python index i is position i + 1          *)
(*   dict            a sequence of <<key, value>> pairs in insertion       *)
(*                   order where the order is observable (assignments),    *)
(*                   a function where it is not (schedule, night_counts)   *)
(* Fields of the staff table that the engine never reads (name, id, role,  *)
(* title, sections, no_pm, no_emd, no_bima, pm_days, oh_few) are left out, *)
(* as are month_name and metadata of the generate result.                  *)
(***************************************************************************)
EXTENDS Integers, Sequences, FiniteSets, TLC

VARIABLES
  staff,            \* RosterEngine.staff: dict code -> staff record
  leave_records,    \* RosterEngine.leave_records
  pc,               \* position of the running generate call
  month, year,      \* arguments of the running generate call
  days,             \* generate: days
  night_eligible,   \* generate: night_eligible
  night_predominant,\* generate: night_predominant
  schedule,         \* generate: schedule
  night_counts,     \* generate: night_counts
  day,              \* generate: loop variable of the running phase
  assigned_tonight, \* generate: assigned_tonight
  candidates,       \* generate: candidates of the current day
  ci,               \* generate: position of the candidate loop (1-based)
  roster,           \* generate: roster
  shift_counts,     \* generate: shift_counts
  result,           \* value returned by the last generate call
  starts,           \* log: <<candidate, day>> of every new-sequence branch taken
  continued,        \* log: <<candidate, day>> of every continue-sequence branch taken
  history,          \* log: outcome of every finished generate call, in order
  request,          \* validate_roster: the request body
  response,         \* validate_roster: the response
  query,            \* is_on_leave: the arguments of the last call
  answer            \* is_on_leave: the value returned by the last call

vars == <<staff, leave_records, pc, month, year, days, night_eligible,
          night_predominant, schedule, night_counts, day, assigned_tonight,
          candidates, ci, roster, shift_counts, result, starts, continued,
          history, request, response, query, answer>>

engineVars == <<staff, leave_records>>
callVars == <<pc, month, year, days, night_eligible, night_predominant,
              schedule, night_counts, day, assigned_tonight, candidates, ci,
              roster, shift_counts, result, starts, continued, history>>
validateVars == <<request, response>>
leaveVars == <<query, answer>>

None == "None"

\* value of a log variable before the call it logs
NoValue == [none |-> TRUE]

(***************************************************************************)
(* Bounds of the model.                                                    *)
(***************************************************************************)
\* generate is called for the years FirstYear .. FirstYear + NumYears - 1
NumYears == 3
\* number of generate calls on one engine in SpecRerun
MaxCalls == 3
\* longest grid handed to validate_roster in SpecValidate
MaxRows == 5
\* longest leave table handed to is_on_leave in SpecLeave
MaxPeriods == 2

\* year of the shipped leave schedule (LEAVE_2026)
FirstYear == 2026

(***************************************************************************)
(* datetime.date                                                           *)
(***************************************************************************)
Date(y, m, d) == [year |-> y, month |-> m, day |-> d]

IsLeap(y) == y % 4 = 0 /\ (y % 100 # 0 \/ y % 400 = 0)

DaysInMonthTable == <<31, 28, 31, 30, 31, 30, 31, 31, 30, 31, 30, 31>>

MonthLength(y, m) == IF m = 2 /\ IsLeap(y) THEN 29 ELSE DaysInMonthTable[m]

\* date(y, m, d) raises ValueError unless this holds
DateValid(y, m, d) ==
  /\ y \in 1..9999
  /\ m \in 1..12
  /\ d \in 1..MonthLength(y, m)

RECURSIVE DaysBeforeMonth(_, _)
DaysBeforeMonth(y, m) ==
  IF m = 1 THEN 0 ELSE DaysBeforeMonth(y, m - 1) + MonthLength(y, m - 1)

DaysBeforeYear(y) ==
  LET p == y - 1 IN p * 365 + (p \div 4) - (p \div 100) + (p \div 400)

\* date.toordinal(): 0001-01-01 is day 1
toordinal(dt) == DaysBeforeYear(dt.year) + DaysBeforeMonth(dt.year, dt.month) + dt.day

\* date.weekday(): Monday is 0, Sunday is 6
weekday(dt) == (toordinal(dt) + 6) % 7

DayNames == <<"Monday", "Tuesday", "Wednesday", "Thursday", "Friday", "Saturday", "Sunday">>

\* date.strftime("%A")
day_name(dt) == DayNames[weekday(dt) + 1]

\* date comparison: lexicographic on (year, month, day)
DateLE(a, b) ==
  \/ a.year < b.year
  \/ a.year = b.year /\ a.month < b.month
  \/ a.year = b.year /\ a.month = b.month /\ a.day <= b.day

DigitChars == <<"0", "1", "2", "3", "4", "5", "6", "7", "8", "9">>

DigitChar(n) == DigitChars[n + 1]

DigitVal(ch) == (CHOOSE i \in 1..10 : DigitChars[i] = ch) - 1

\* date.isoformat(): "YYYY-MM-DD"
isoformat(dt) ==
  << DigitChar(dt.year \div 1000), DigitChar((dt.year \div 100) % 10),
     DigitChar((dt.year \div 10) % 10), DigitChar(dt.year % 10), "-",
     DigitChar(dt.month \div 10), DigitChar(dt.month % 10), "-",
     DigitChar(dt.day \div 10), DigitChar(dt.day % 10) >>

\* date.fromisoformat(s) for a well-formed "YYYY-MM-DD"
fromisoformat(s) ==
  Date(DigitVal(s[1]) * 1000 + DigitVal(s[2]) * 100 + DigitVal(s[3]) * 10 + DigitVal(s[4]),
       DigitVal(s[6]) * 10 + DigitVal(s[7]),
       DigitVal(s[9]) * 10 + DigitVal(s[10]))

\* the string literal "YYYY-MM-DD" of a table
Iso(y, m, d) == isoformat(Date(y, m, d))

(***************************************************************************)
(* dict with observable insertion order: a sequence of <<key, value>>      *)
(***************************************************************************)
Keys(d) == [i \in 1..Len(d) |-> d[i][1]]

KeySet(d) == {d[i][1] : i \in 1..Len(d)}

Values(d) == [i \in 1..Len(d) |-> d[i][2]]

HasKey(d, k) == \E i \in 1..Len(d) : d[i][1] = k

\* d[k] of a key that is present
Lookup(d, k) == d[CHOOSE i \in 1..Len(d) : d[i][1] = k][2]

\* d.get(k): None when the key is absent
DictGet(d, k) == IF HasKey(d, k) THEN Lookup(d, k) ELSE None

\* d[k] = v: replaces in place, or appends a new key
DictSet(d, k, v) ==
  IF HasKey(d, k)
    THEN [i \in 1..Len(d) |-> IF d[i][1] = k THEN <<k, v>> ELSE d[i]]
    ELSE Append(d, <<k, v>>)

\* {s["code"]: s for s in db}
RECURSIVE DictByCode(_)
DictByCode(db) ==
  IF db = <<>> THEN <<>>
  ELSE DictSet(DictByCode(SubSeq(db, 1, Len(db) - 1)), db[Len(db)].code, db[Len(db)])

(***************************************************************************)
(* The shipped tables (src/main.py lines 50-218)                           *)
(***************************************************************************)
STAFF_DB ==
  <<
    [code |-> "NJAM", night_eligible |-> FALSE, shift_preference |-> [type |-> "strict_oh", weekend_day |-> "Sunday"]],
    [code |-> "EKI", night_eligible |-> FALSE, shift_preference |-> [type |-> "strict_oh", weekend_day |-> "Saturday"]],
    [code |-> "KIS", night_eligible |-> FALSE, shift_preference |-> [type |-> "strict_oh", weekend_day |-> "Saturday"]],
    [code |-> "LOV", night_eligible |-> FALSE, shift_preference |-> [type |-> "strict_oh", weekend_day |-> "Saturday"]],
    [code |-> "CATH", night_eligible |-> FALSE, shift_preference |-> [type |-> "strict_oh", weekend_day |-> "Saturday"]],
    [code |-> "JOHA", night_eligible |-> FALSE, shift_preference |-> [type |-> "strict_oh", weekend_day |-> "Sunday"]],
    [code |-> "KHAD", night_eligible |-> FALSE, shift_preference |-> [type |-> "strict_oh", weekend_day |-> "Saturday"]],
    [code |-> "CELI", night_eligible |-> FALSE, shift_preference |-> [type |-> "strict_oh", weekend_day |-> "Saturday"]],
    [code |-> "TEKEL", night_eligible |-> FALSE, shift_preference |-> [type |-> "strict_oh", weekend_day |-> "Saturday"]],
    [code |-> "KATU", night_eligible |-> FALSE, shift_preference |-> [type |-> "strict_oh", weekend_day |-> "Sunday"]],
    [code |-> "MAY", night_eligible |-> FALSE, shift_preference |-> [type |-> "strict_oh"]],
    [code |-> "BERTHA", night_eligible |-> FALSE, shift_preference |-> [type |-> "strict_oh", weekend_day |-> "Saturday"]],
    [code |-> "ASMA", night_eligible |-> FALSE, shift_preference |-> [type |-> "strict_oh"]],
    [code |-> "OMAR", night_eligible |-> TRUE, shift_preference |-> [type |-> "oh_weekdays_pm_weekends", shuffle |-> TRUE]],
    [code |-> "AGRIPIN", night_eligible |-> FALSE, shift_preference |-> [type |-> "oh_weekdays_pm_weekends", weekend_day |-> "Saturday", shuffle |-> TRUE]],
    [code |-> "NYAKUNGA", night_eligible |-> TRUE, shift_preference |-> [type |-> "oh_weekdays_pm_sunday"]],
    [code |-> "MIK", night_eligible |-> TRUE, shift_preference |-> [type |-> "emd_predominant", night_emd |-> TRUE]],
    [code |-> "SANG", night_eligible |-> TRUE, shift_preference |-> [type |-> "emd_predominant", night_emd |-> TRUE]],
    [code |-> "FRANK", night_eligible |-> FALSE, shift_preference |-> [type |-> "emd_predominant"]],
    [code |-> "JISKAKA", night_eligible |-> TRUE, shift_preference |-> [type |-> "emd_predominant", weekend_day |-> "Sunday"]],
    [code |-> "YSUPH", night_eligible |-> TRUE, shift_preference |-> [type |-> "emd_predominant"]],
    [code |-> "DOREEN", night_eligible |-> TRUE, shift_preference |-> [type |-> "pm_predominant"]],
    [code |-> "HAPPY", night_eligible |-> TRUE, shift_preference |-> [type |-> "pm_predominant"]],
    [code |-> "VALENT", night_eligible |-> FALSE, shift_preference |-> [type |-> "pm_predominant"]],
    [code |-> "GOD", night_eligible |-> TRUE, shift_preference |-> [type |-> "night_predominant"]],
    [code |-> "JOSEPH", night_eligible |-> FALSE, shift_preference |-> [type |-> "night_predominant"]],
    [code |-> "DATUS", night_eligible |-> TRUE, shift_preference |-> [type |-> "night_predominant"]],
    [code |-> "NEEM", night_eligible |-> TRUE, shift_preference |-> [type |-> "bima_predominant", weekend_day |-> "Sunday"]],
    [code |-> "JENISTER", night_eligible |-> FALSE, shift_preference |-> [type |-> "bima_predominant"]],
    [code |-> "MAR", night_eligible |-> FALSE],
    [code |-> "SALOM", night_eligible |-> FALSE],
    [code |-> "SHUW", night_eligible |-> FALSE],
    [code |-> "PAUL", night_eligible |-> FALSE]
  >>

LEAVE_2026 ==
  <<
    [code |-> "LOV", start |-> Iso(2026, 5, 22), end |-> Iso(2026, 6, 19)],
    [code |-> "OMAR", start |-> Iso(2026, 10, 19), end |-> Iso(2026, 11, 16)],
    [code |-> "EKI", start |-> Iso(2026, 11, 30), end |-> Iso(2026, 12, 28)],
    [code |-> "KIS", start |-> Iso(2026, 11, 16), end |-> Iso(2026, 12, 14)],
    [code |-> "JOHA", start |-> Iso(2026, 12, 20), end |-> Iso(2027, 1, 18)],
    [code |-> "NEEM", start |-> Iso(2026, 6, 12), end |-> Iso(2026, 7, 10)],
    [code |-> "CATH", start |-> Iso(2026, 12, 14), end |-> Iso(2027, 1, 10)],
    [code |-> "SALOM", start |-> Iso(2026, 12, 15), end |-> Iso(2027, 1, 11)],
    [code |-> "CELI", start |-> Iso(2026, 12, 14), end |-> Iso(2027, 1, 10)],
    [code |-> "GOD", start |-> Iso(2026, 11, 23), end |-> Iso(2026, 12, 21)],
    [code |-> "TEKEL", start |-> Iso(2026, 12, 10), end |-> Iso(2027, 1, 8)],
    [code |-> "VALENT", start |-> Iso(2026, 4, 6), end |-> Iso(2026, 5, 4)],
    [code |-> "FRANK", start |-> Iso(2026, 9, 20), end |-> Iso(2026, 10, 20)],
    [code |-> "MAY", start |-> Iso(2026, 12, 21), end |-> Iso(2027, 1, 17)],
    [code |-> "KATU", start |-> Iso(2026, 11, 9), end |-> Iso(2026, 12, 6)],
    [code |-> "JOSEPH", start |-> Iso(2026, 6, 30), end |-> Iso(2026, 7, 28)],
    [code |-> "HAPPY", start |-> Iso(2026, 10, 20), end |-> Iso(2026, 11, 17)],
    [code |-> "MAR", start |-> Iso(2026, 12, 21), end |-> Iso(2027, 1, 17)],
    [code |-> "DATUS", start |-> Iso(2026, 12, 14), end |-> Iso(2027, 1, 12)],
    [code |-> "SHUW", start |-> Iso(2026, 9, 10), end |-> Iso(2026, 10, 8)],
    [code |-> "JENISTER", start |-> Iso(2026, 3, 30), end |-> Iso(2026, 4, 27)],
    [code |-> "DOREEN", start |-> Iso(2026, 6, 28), end |-> Iso(2026, 7, 28)],
    [code |-> "JISKAKA", start |-> Iso(2026, 12, 8), end |-> Iso(2027, 7, 18)],
    [code |-> "YSUPH", start |-> Iso(2026, 6, 29), end |-> Iso(2026, 7, 27)],
    [code |-> "AGRIPIN", start |-> Iso(2026, 6, 29), end |-> Iso(2026, 7, 27)],
    [code |-> "KHAD", start |-> Iso(2026, 8, 3), end |-> Iso(2026, 8, 31)],
    [code |-> "MIK", start |-> Iso(2026, 4, 13), end |-> Iso(2026, 5, 4)],
    [code |-> "PAUL", start |-> Iso(2026, 6, 29), end |-> Iso(2026, 7, 27)]
  >>

(***************************************************************************)
(* Other tables the engine is constructed over: the engine reads its two   *)
(* tables only through self.staff and self.leave_records.                  *)
(***************************************************************************)
\* one night-eligible, night-predominant member, no leave
SINGLE_DB ==
  << [code |-> "GOD", night_eligible |-> TRUE, shift_preference |-> [type |-> "night_predominant"]] >>

\* one member of each kind that the night phase treats differently
WARD_DB ==
  <<
    [code |-> "NP1", night_eligible |-> TRUE, shift_preference |-> [type |-> "night_predominant"]],
    [code |-> "DF1", night_eligible |-> TRUE],
    [code |-> "EM1", night_eligible |-> TRUE, shift_preference |-> [type |-> "emd_predominant", night_emd |-> TRUE]],
    [code |-> "SO1", night_eligible |-> TRUE, shift_preference |-> [type |-> "strict_oh", weekend_day |-> "Saturday"]],
    [code |-> "PM1", night_eligible |-> TRUE, shift_preference |-> [type |-> "pm_predominant"]],
    [code |-> "BM1", night_eligible |-> FALSE, shift_preference |-> [type |-> "bima_predominant", weekend_day |-> "Sunday"]],
    [code |-> "WK1", night_eligible |-> TRUE, shift_preference |-> [type |-> "oh_weekdays_pm_weekends", shuffle |-> TRUE]]
  >>

\* short leaves inside a month, a leave across new year, and a period whose
\* start year is later than its end year
WARD_LEAVE ==
  <<
    [code |-> "NP1", start |-> Iso(2026, 4, 10), end |-> Iso(2026, 4, 12)],
    [code |-> "NP1", start |-> Iso(2027, 2, 26), end |-> Iso(2027, 3, 2)],
    [code |-> "DF1", start |-> Iso(2026, 12, 28), end |-> Iso(2027, 1, 3)],
    [code |-> "EM1", start |-> Iso(2027, 11, 20), end |-> Iso(2026, 2, 5)],
    [code |-> "SO1", start |-> Iso(2026, 6, 1), end |-> Iso(2026, 6, 30)],
    [code |-> "GONE", start |-> Iso(2026, 1, 1), end |-> Iso(2027, 12, 31)]
  >>

\* members of the bima_predominant, strict_oh and emd_predominant variants with
\* every setting of the keys weekend_day and night_emd that the fill reads
CLINIC_DB ==
  <<
    [code |-> "BS1", night_eligible |-> FALSE, shift_preference |-> [type |-> "bima_predominant", weekend_day |-> "Sunday"]],
    [code |-> "BN1", night_eligible |-> TRUE, shift_preference |-> [type |-> "bima_predominant"]],
    [code |-> "BT1", night_eligible |-> FALSE, shift_preference |-> [type |-> "bima_predominant", weekend_day |-> "Saturday"]],
    [code |-> "SS1", night_eligible |-> FALSE, shift_preference |-> [type |-> "strict_oh", weekend_day |-> "Sunday"]],
    [code |-> "SN1", night_eligible |-> FALSE, shift_preference |-> [type |-> "strict_oh"]],
    [code |-> "EN1", night_eligible |-> FALSE, shift_preference |-> [type |-> "emd_predominant", night_emd |-> TRUE]],
    [code |-> "ES1", night_eligible |-> TRUE, shift_preference |-> [type |-> "emd_predominant", weekend_day |-> "Sunday"]],
    [code |-> "EP1", night_eligible |-> FALSE, shift_preference |-> [type |-> "emd_predominant"]],
    [code |-> "DF2", night_eligible |-> FALSE]
  >>

CLINIC_LEAVE ==
  <<
    [code |-> "BS1", start |-> Iso(2026, 3, 1), end |-> Iso(2026, 3, 8)],
    [code |-> "ES1", start |-> Iso(2026, 3, 20), end |-> Iso(2026, 4, 2)],
    [code |-> "SN1", start |-> Iso(2027, 5, 14), end |-> Iso(2027, 5, 17)]
  >>

Tables ==
  { [db |-> STAFF_DB, leave |-> LEAVE_2026],
    [db |-> SINGLE_DB, leave |-> <<>>],
    [db |-> WARD_DB, leave |-> WARD_LEAVE],
    [db |-> CLINIC_DB, leave |-> CLINIC_LEAVE] }

Years == FirstYear .. (FirstYear + NumYears - 1)

\* month arguments: 1..12 and one value beyond each end
MonthInputs == 0..13

(***************************************************************************)
(* RosterEngine.is_on_leave                                                *)
(***************************************************************************)
\* variant: the end date is not part of the period
InPeriod_exclusive_end(start, end, current_date) ==
  DateLE(start, current_date) /\ ~DateLE(end, current_date)

\* start <= current_date <= end
InPeriod(start, end, current_date) == DateLE(start, current_date) /\ DateLE(current_date, end)

\* variant: both comparisons are required
InWrappedPeriod_both(start, end, current_date) ==
  /\ start.year > end.year
  /\ DateLE(start, current_date)
  /\ DateLE(current_date, end)

\* start.year > end.year, and then current_date >= start or current_date <= end
InWrappedPeriod(start, end, current_date) ==
  /\ start.year > end.year
  /\ (DateLE(start, current_date) \/ DateLE(current_date, end))

\* one entry of the scan returns True (lines 236-243)
EntryMatches(entry, staff_code, current_date) ==
  LET start == fromisoformat(entry.start)
      end == fromisoformat(entry.end)
  IN /\ entry.code = staff_code
     /\ (InPeriod(start, end, current_date) \/ InWrappedPeriod(start, end, current_date))

\* for entry in records: ... return True; return False
LeaveScan(records, staff_code, current_date) ==
  \E i \in 1..Len(records) : EntryMatches(records[i], staff_code, current_date)

is_on_leave(staff_code, current_date) == LeaveScan(leave_records, staff_code, current_date)

(***************************************************************************)
(* RosterEngine.get_days_in_month, get_staff_preference                    *)
(***************************************************************************)
NextMonthFirst(y, m) == IF m = 12 THEN <<y + 1, 1, 1>> ELSE <<y, m + 1, 1>>

\* one of the two date(...) constructions raises ValueError
DaysInMonthRaises(y, m) ==
  LET n == NextMonthFirst(y, m)
  IN ~DateValid(n[1], n[2], n[3]) \/ ~DateValid(y, m, 1)

\* variant: the month lengths of a common year, whatever the year
get_days_in_month_common_year(y, m) == DaysInMonthTable[m]

get_days_in_month(y, m) ==
  LET n == NextMonthFirst(y, m)
  IN toordinal(Date(n[1], n[2], n[3])) - toordinal(Date(y, m, 1))

DefaultPreference == [type |-> "default"]

get_staff_preference(code) ==
  IF ~HasKey(staff, code) THEN DefaultPreference
  ELSE LET s == Lookup(staff, code)
       IN IF "shift_preference" \in DOMAIN s THEN s.shift_preference ELSE DefaultPreference

\* pref.get("type") / pref.get("type", "default")
PrefType(pref) == IF "type" \in DOMAIN pref THEN pref.type ELSE "default"

\* variant: the designated weekend day is never read
PrefWeekendDay_none(pref) == None

\* pref.get("weekend_day")
PrefWeekendDay(pref) == IF "weekend_day" \in DOMAIN pref THEN pref.weekend_day ELSE None

\* variant: no boolean key is ever set
PrefFlag_unset(pref, key) == FALSE

\* truth value of pref.get(key) for the boolean keys shuffle, night_emd
PrefFlag(pref, key) == key \in DOMAIN pref /\ pref[key] = TRUE

StaffCodes == Keys(staff)

StaffSet == KeySet(staff)

(***************************************************************************)
(* RosterEngine.generate: set-up (lines 263-282)                           *)
(***************************************************************************)
SeqSet(s) == {s[i] : i \in 1..Len(s)}

InSeq(x, s) == \E i \in 1..Len(s) : s[i] = x

\* s.get("night_eligible") and preference type not in ["strict_oh", "pm_predominant"]
\* variant: the flag alone decides
IsNightCandidate_flag_only(code) ==
  LET s == Lookup(staff, code)
  IN "night_eligible" \in DOMAIN s /\ s.night_eligible = TRUE

IsNightCandidate(code) ==
  LET s == Lookup(staff, code)
  IN /\ "night_eligible" \in DOMAIN s
     /\ s.night_eligible = TRUE
     /\ PrefType(get_staff_preference(code)) \notin {"strict_oh", "pm_predominant"}

NightEligibleList == SelectSeq(StaffCodes, IsNightCandidate)

IsPriority(code) ==
  /\ PrefType(get_staff_preference(code)) \in {"night_predominant", "emd_predominant"}
  /\ InSeq(code, NightEligibleList)

NightPredominantList == SelectSeq(StaffCodes, IsPriority)

\* schedule = {code: [None] * days for code in self.staff.keys()}
InitSchedule(d) == [code \in StaffSet |-> [i \in 1..d |-> None]]

\* variant: a counter for every member of the staff table
InitNightCounts_every_member(eligible) == [code \in StaffSet |-> 0]

\* variant: the counters kept on the engine from one run to the next
InitNightCounts_kept(eligible) ==
  [code \in SeqSet(eligible) |-> IF code \in DOMAIN night_counts THEN night_counts[code] ELSE 0]

\* night_counts = {code: 0 for code in night_eligible}
InitNightCounts(eligible) == [code \in SeqSet(eligible) |-> 0]

\* schedule[code][d] with the 0-based day index d of the code
Cell(sched, code, d) == sched[code][d + 1]

WriteCell(sched, code, d, v) == [sched EXCEPT ![code][d + 1] = v]

(***************************************************************************)
(* RosterEngine.generate: night phase (lines 284-341)                      *)
(***************************************************************************)
\* sorted(s, key=lambda x: counts[x]): stable, ascending
RECURSIVE InsertByCount(_, _, _)
InsertByCount(sorted, x, counts) ==
  IF sorted = <<>> THEN <<x>>
  ELSE IF counts[sorted[Len(sorted)]] <= counts[x] THEN Append(sorted, x)
  ELSE Append(InsertByCount(SubSeq(sorted, 1, Len(sorted) - 1), x, counts), sorted[Len(sorted)])

\* variant: the list is left in its input order
SortedByCount_unsorted(s, counts) == s

RECURSIVE SortedByCount(_, _)
SortedByCount(s, counts) ==
  IF s = <<>> THEN <<>>
  ELSE InsertByCount(SortedByCount(SubSeq(s, 1, Len(s) - 1), counts), s[Len(s)], counts)

IsEligibleNow(code) == InSeq(code, night_eligible)

IsNotPredominantNow(code) == ~InSeq(code, night_predominant)

\* the candidates list of one day (lines 293-299)
CandidateOrder ==
  SortedByCount(SelectSeq(night_predominant, IsEligibleNow), night_counts)
    \o SortedByCount(SelectSeq(night_eligible, IsNotPredominantNow), night_counts)

\* variant: no start on the day after a day off either
CanStart_after_rest(sched, code, d) ==
  ~(d > 0 /\ Cell(sched, code, d - 1) \in {"N", "SD", "DO"})

\* value of can_start after the look-back (lines 312-319)
CanStart(sched, code, d) ==
  ~(d > 0 /\ Cell(sched, code, d - 1) \in {"N", "SD"})

\* the look-back enters the "Continue sequence" branch (lines 317-321)
TakesContinueBranch(sched, code, d) ==
  /\ d > 0
  /\ Cell(sched, code, d - 1) = "N"
  /\ ~(d > 1 /\ Cell(sched, code, d - 2) = "N")

\* lines 322-326
ContinueSequence(sched, code, d, n) ==
  LET s1 == WriteCell(sched, code, d, "N")
      s2 == IF d + 1 < n THEN WriteCell(s1, code, d + 1, "SD") ELSE s1
  IN IF d + 2 < n THEN WriteCell(s2, code, d + 2, "DO") ELSE s2

\* all(schedule[candidate][day + i] is None for i in range(4))
WindowFree(sched, code, d) == \A i \in 0..3 : Cell(sched, code, d + i) = None

\* variant: the four dates are not checked for leave
WindowOnLeave_unchecked(code, d) == FALSE

\* variant: only the date of the first night is checked for leave
WindowOnLeave_first_day(code, d) == is_on_leave(code, Date(year, month, d + 1))

\* any(leave_check)
WindowOnLeave(code, d) == \E i \in 0..3 : is_on_leave(code, Date(year, month, d + i + 1))

\* day + 3 < days
FitsInMonth(d, n) == d + 3 < n

\* variant: only the first night is written at the start of a sequence
StartSequence_first_night_only(sched, code, d) == WriteCell(sched, code, d, "N")

\* variant: only the two nights are written at the start of a sequence
StartSequence_nights_only(sched, code, d) ==
  WriteCell(WriteCell(sched, code, d, "N"), code, d + 1, "N")

\* variant: the block is written one day late, behind a day off
StartSequence_day_off_first(sched, code, d) ==
  WriteCell(WriteCell(WriteCell(WriteCell(sched, code, d, "DO"), code, d + 1, "N"),
                      code, d + 2, "N"), code, d + 3, "SD")

\* variant: the day off after the short day is not written
StartSequence_no_day_off(sched, code, d) ==
  WriteCell(WriteCell(WriteCell(sched, code, d, "N"), code, d + 1, "N"), code, d + 2, "SD")

\* lines 336-339
StartSequence(sched, code, d) ==
  WriteCell(WriteCell(WriteCell(WriteCell(sched, code, d, "N"), code, d + 1, "N"),
                      code, d + 2, "SD"), code, d + 3, "DO")

\* variant: one per sequence
CountStart_once(counts, code) == [counts EXCEPT ![code] = @ + 1]

\* night_counts[candidate] += 2 (line 340)
CountStart(counts, code) == [counts EXCEPT ![code] = @ + 2]

\* night_counts[candidate] += 1 (line 327)
CountContinue(counts, code) == [counts EXCEPT ![code] = @ + 1]

\* variant: Sunday taken to be day 0 of the week
IsSunday_day0(dt) == weekday(dt) = 0

\* current_date.weekday() == 6
IsSunday(dt) == weekday(dt) = 6

IsSaturday(dt) == weekday(dt) = 5

\* if assigned_tonight >= 2: break
\* variant: three staff per night
CapReached_three(n) == n >= 3

CapReached(n) == n >= 2

(***************************************************************************)
(* RosterEngine.generate: preference fill (lines 344-460)                  *)
(***************************************************************************)
\* the duty code of lines 374-458 for a member neither on leave nor pre-filled
PreferenceCode(code, d, is_saturday, is_sunday) ==
  LET pref == get_staff_preference(code)
      pref_type == PrefType(pref)
      is_weekend == is_saturday \/ is_sunday
  IN
  IF pref_type = "strict_oh" THEN
    IF is_sunday THEN (IF PrefWeekendDay(pref) = "Sunday" THEN "OH" ELSE "DO")
    ELSE IF is_saturday THEN (IF PrefWeekendDay(pref) = "Saturday" THEN "OH" ELSE "DO")
    ELSE "OH"
  ELSE IF pref_type = "oh_weekdays_pm_weekends" THEN
    IF is_weekend THEN
      IF PrefFlag(pref, "shuffle") THEN
        IF (d \div 7) % 2 = 0
          THEN (IF is_saturday THEN "PM" ELSE "DO")
          ELSE (IF is_sunday THEN "PM" ELSE "DO")
      ELSE "PM"
    ELSE "OH"
  ELSE IF pref_type = "oh_weekdays_pm_sunday" THEN
    IF is_sunday THEN "PM" ELSE IF is_saturday THEN "DO" ELSE "OH"
  ELSE IF pref_type = "emd_predominant" THEN
    IF is_sunday /\ PrefWeekendDay(pref) = "Sunday" THEN "OH"
    ELSE IF is_saturday THEN "DO"
    ELSE IF PrefFlag(pref, "night_emd") /\ code \in DOMAIN night_counts
      THEN (IF d % 4 = 0 THEN "OH+EMD" ELSE "OH")
      ELSE (IF d % 2 = 0 THEN "OH+EMD" ELSE "OH")
  ELSE IF pref_type = "pm_predominant" THEN
    IF is_weekend THEN "DO" ELSE (IF d % 3 # 0 THEN "PM" ELSE "OH")
  ELSE IF pref_type = "night_predominant" THEN
    IF is_weekend THEN "DO" ELSE (IF d % 3 = 0 THEN "OH" ELSE "DO")
  ELSE IF pref_type = "bima_predominant" THEN
    IF is_sunday /\ PrefWeekendDay(pref) = "Sunday" THEN "OH"
    ELSE IF is_saturday THEN "DO"
    ELSE "OH+BIMA"
  ELSE
    IF is_sunday THEN "DO" ELSE IF is_saturday THEN "DO" ELSE "OH"

\* variant: the leave check of the fill is missing
CellCode_no_leave(code, d) ==
  LET current_date == Date(year, month, d + 1)
  IN IF Cell(schedule, code, d) # None THEN Cell(schedule, code, d)
     ELSE PreferenceCode(code, d, IsSaturday(current_date), weekday(current_date) = 6)

\* the value written to day_entry["assignments"][code] (lines 359-458)
CellCode(code, d) ==
  LET current_date == Date(year, month, d + 1)
  IN IF is_on_leave(code, current_date) THEN "A"
     ELSE IF Cell(schedule, code, d) # None THEN Cell(schedule, code, d)
     ELSE PreferenceCode(code, d, IsSaturday(current_date), IsSunday(current_date))

\* for code, staff in self.staff.items(): day_entry["assignments"][code] = ...
\* (the keys of a dict are distinct, so every assignment appends a new key)
FillAssignments(codes, d) ==
  [i \in 1..Len(codes) |-> <<codes[i], CellCode(codes[i], d)>>]

\* lines 347-356 and the staff loop
DayEntry(d) ==
  LET current_date == Date(year, month, d + 1)
  IN [ date |-> isoformat(current_date),
       day_name |-> day_name(current_date),
       day_number |-> d + 1,
       is_weekend |-> weekday(current_date) >= 5,
       is_sunday |-> IsSunday(current_date),
       is_saturday |-> IsSaturday(current_date),
       assignments |-> FillAssignments(StaffCodes, d) ]

(***************************************************************************)
(* RosterEngine.generate: statistics (lines 462-476)                       *)
(***************************************************************************)
\* variant: the first occurrence of a code is not counted
CountShift_from_zero(counts, shift) ==
  IF shift \in DOMAIN counts THEN [counts EXCEPT ![shift] = @ + 1]
  ELSE [s \in DOMAIN counts \cup {shift} |-> IF s = shift THEN 0 ELSE counts[s]]

\* shift_counts[shift] = shift_counts.get(shift, 0) + 1
CountShift(counts, shift) ==
  IF shift \in DOMAIN counts THEN [counts EXCEPT ![shift] = @ + 1]
  ELSE [s \in DOMAIN counts \cup {shift} |-> IF s = shift THEN 1 ELSE counts[s]]

RECURSIVE CountShifts(_, _)
CountShifts(counts, shifts) ==
  IF shifts = <<>> THEN counts
  ELSE CountShift(CountShifts(counts, SubSeq(shifts, 1, Len(shifts) - 1)), shifts[Len(shifts)])

\* shift_counts = {}
EmptyCounts == [s \in {} |-> 0]

GenerateResult ==
  [ month |-> month,
    year |-> year,
    total_days |-> days,
    total_staff |-> Len(staff),
    shift_distribution |-> shift_counts,
    night_shift_distribution |-> night_counts,
    roster |-> roster ]

\* variant: the failure carries an (empty) roster
GenerateError_with_roster == [error |-> "ValueError", roster |-> <<>>]

\* the exception that leaves generate when a date(...) construction fails
GenerateError == [error |-> "ValueError"]

(***************************************************************************)
(* RosterEngine.generate as a process                                      *)
(*   pc = "idle"       no call yet                                         *)
(*   pc = "night"      at the head of the day loop of the night phase      *)
(*   pc = "candidate"  at the head of the candidate loop of one day        *)
(*   pc = "fill"       at the head of the day loop of the preference fill  *)
(*   pc = "stats"      at the head of the loop over the roster rows        *)
(*   pc = "done"       returned; pc = "error": raised                      *)
(***************************************************************************)
Generate(m, y, limit) ==
  /\ pc \in {"idle", "done", "error"}
  /\ Len(history) < limit
  /\ month' = m
  /\ year' = y
  /\ starts' = {}
  /\ continued' = {}
  /\ day' = 0
  /\ assigned_tonight' = 0
  /\ candidates' = <<>>
  /\ ci' = 1
  /\ roster' = <<>>
  /\ shift_counts' = EmptyCounts
  /\ IF DaysInMonthRaises(y, m)
       THEN /\ pc' = "error"
            /\ result' = GenerateError
            /\ history' = Append(history, [month |-> m, year |-> y, outcome |-> GenerateError])
            /\ days' = 0
            /\ night_eligible' = <<>>
            /\ night_predominant' = <<>>
            /\ schedule' = <<>>
            /\ night_counts' = <<>>
       ELSE /\ pc' = "night"
            /\ result' = NoValue
            /\ days' = get_days_in_month(y, m)
            /\ night_eligible' = NightEligibleList
            /\ schedule' = InitSchedule(get_days_in_month(y, m))
            /\ night_counts' = InitNightCounts(NightEligibleList)
            /\ night_predominant' = NightPredominantList
            /\ UNCHANGED history
  /\ UNCHANGED <<engineVars, validateVars, leaveVars>>

\* head of "for day in range(days)" of the night phase, up to the candidate loop
NightDay ==
  /\ pc = "night"
  /\ IF day >= days
       THEN /\ pc' = "fill"
            /\ day' = 0
            /\ roster' = <<>>
            /\ UNCHANGED <<assigned_tonight, candidates, ci>>
       ELSE IF IsSunday(Date(year, month, day + 1))
         THEN /\ day' = day + 1
              /\ UNCHANGED <<pc, roster, assigned_tonight, candidates, ci>>
         ELSE /\ pc' = "candidate"
              /\ assigned_tonight' = 0
              /\ candidates' = CandidateOrder
              /\ ci' = 1
              /\ UNCHANGED <<day, roster>>
  /\ UNCHANGED <<month, year, days, night_eligible, night_predominant, schedule,
                 night_counts, shift_counts, result, starts, continued, history>>
  /\ UNCHANGED <<engineVars, validateVars, leaveVars>>

\* one iteration of "for candidate in candidates" (lines 301-341), or its end
NightCandidate ==
  /\ pc = "candidate"
  /\ IF ci > Len(candidates) \/ CapReached(assigned_tonight)
       THEN /\ pc' = "night"
            /\ day' = day + 1
            /\ UNCHANGED <<schedule, night_counts, assigned_tonight, ci, starts, continued>>
       ELSE LET candidate == candidates[ci]
                current_date == Date(year, month, day + 1)
            IN /\ ci' = ci + 1
               /\ UNCHANGED <<pc, day>>
               /\ IF is_on_leave(candidate, current_date)
                    THEN UNCHANGED <<schedule, night_counts, assigned_tonight, starts, continued>>
                  ELSE IF Cell(schedule, candidate, day) # None
                    THEN UNCHANGED <<schedule, night_counts, assigned_tonight, starts, continued>>
                  ELSE IF TakesContinueBranch(schedule, candidate, day)
                    THEN /\ schedule' = ContinueSequence(schedule, candidate, day, days)
                         /\ night_counts' = CountContinue(night_counts, candidate)
                         /\ assigned_tonight' = assigned_tonight + 1
                         /\ continued' = continued \cup {<<candidate, day>>}
                         /\ UNCHANGED starts
                  ELSE IF /\ CanStart(schedule, candidate, day)
                          /\ FitsInMonth(day, days)
                          /\ WindowFree(schedule, candidate, day)
                          /\ ~WindowOnLeave(candidate, day)
                    THEN /\ schedule' = StartSequence(schedule, candidate, day)
                         /\ night_counts' = CountStart(night_counts, candidate)
                         /\ assigned_tonight' = assigned_tonight + 1
                         /\ starts' = starts \cup {<<candidate, day>>}
                         /\ UNCHANGED continued
                  ELSE UNCHANGED <<schedule, night_counts, assigned_tonight, starts, continued>>
  /\ UNCHANGED <<month, year, days, night_eligible, night_predominant, candidates,
                 roster, shift_counts, result, history>>
  /\ UNCHANGED <<engineVars, validateVars, leaveVars>>

\* one iteration of "for day in range(days)" of the preference fill, or its end
FillDay ==
  /\ pc = "fill"
  /\ IF day < days
       THEN /\ roster' = Append(roster, DayEntry(day))
            /\ day' = day + 1
            /\ UNCHANGED <<pc, shift_counts>>
       ELSE /\ pc' = "stats"
            /\ day' = 0
            /\ shift_counts' = EmptyCounts
            /\ UNCHANGED roster
  /\ UNCHANGED <<month, year, days, night_eligible, night_predominant, schedule,
                 night_counts, assigned_tonight, candidates, ci, result, starts,
                 continued, history>>
  /\ UNCHANGED <<engineVars, validateVars, leaveVars>>

\* one iteration of "for day in roster" of the statistics (lines 464-466);
\* day counts the rows already tallied
CountDay ==
  /\ pc = "stats"
  /\ day < Len(roster)
  /\ shift_counts' = CountShifts(shift_counts, Values(roster[day + 1].assignments))
  /\ day' = day + 1
  /\ UNCHANGED <<pc, month, year, days, night_eligible, night_predominant, schedule,
                 night_counts, assigned_tonight, candidates, ci, roster, result,
                 starts, continued, history>>
  /\ UNCHANGED <<engineVars, validateVars, leaveVars>>

\* return (lines 468-484)
Return ==
  /\ pc = "stats"
  /\ day >= Len(roster)
  /\ pc' = "done"
  /\ result' = GenerateResult
  /\ history' = Append(history, [month |-> month, year |-> year, outcome |-> GenerateResult])
  /\ UNCHANGED <<month, year, days, night_eligible, night_predominant, schedule,
                 night_counts, day, assigned_tonight, candidates, ci, roster,
                 shift_counts, starts, continued>>
  /\ UNCHANGED <<engineVars, validateVars, leaveVars>>

\* RosterEngine.__init__ over one pair of tables (lines 229-231)
EngineInit(t) ==
  /\ staff = DictByCode(t.db)
  /\ leave_records = t.leave

CallIdle ==
  /\ pc = "idle"
  /\ month = 0
  /\ year = 0
  /\ days = 0
  /\ night_eligible = <<>>
  /\ night_predominant = <<>>
  /\ schedule = <<>>
  /\ night_counts = <<>>
  /\ day = 0
  /\ assigned_tonight = 0
  /\ candidates = <<>>
  /\ ci = 1
  /\ roster = <<>>
  /\ shift_counts = EmptyCounts
  /\ result = NoValue
  /\ starts = {}
  /\ continued = {}
  /\ history = <<>>

ValidateIdle ==
  /\ request = NoValue
  /\ response = NoValue

LeaveIdle ==
  /\ query = NoValue
  /\ answer = NoValue

(***************************************************************************)
(* Spec: one generate call on a freshly constructed engine, for every      *)
(* table, every month argument and every year of the range.                *)
(***************************************************************************)
Init ==
  /\ \E t \in Tables : EngineInit(t)
  /\ CallIdle
  /\ ValidateIdle
  /\ LeaveIdle

Next ==
  \/ \E m \in MonthInputs, y \in Years : Generate(m, y, 1)
  \/ NightDay
  \/ NightCandidate
  \/ FillDay
  \/ CountDay
  \/ Return

Spec == Init /\ [][Next]_vars

(***************************************************************************)
(* SpecRerun: up to MaxCalls generate calls, one after the other, on one   *)
(* engine; the arguments are drawn from a few months of FirstYear.         *)
(***************************************************************************)
RerunMonths == {4, 12}

NextRerun ==
  \/ \E m \in RerunMonths : Generate(m, FirstYear, MaxCalls)
  \/ NightDay
  \/ NightCandidate
  \/ FillDay
  \/ CountDay
  \/ Return

SpecRerun == Init /\ [][NextRerun]_vars

(***************************************************************************)
(* validate_roster (lines 615-642)                                         *)
(* A day record is a record that may lack its "date" or its "assignments"  *)
(* field.  The f-string of "actual" is modelled by its pieces.             *)
(***************************************************************************)
\* request.roster_data.get("roster", [])
RequestRoster(req) ==
  IF "roster" \in DOMAIN req.roster_data THEN req.roster_data.roster ELSE <<>>

\* day.get("assignments", {})
DayAssignments(d) == IF "assignments" \in DOMAIN d THEN d.assignments ELSE <<>>

\* roster[i]["assignments"].get(code), for a row that has the field
NextShift(rows, i, code) == DictGet(rows[i].assignments, code)

\* day_idx + 3 < len(roster), with the 1-based row i = day_idx + 1
HasThreeFollowing(rows, i) == i + 2 < Len(rows)

\* [next1, next2, next3] != ["N", "SD", "DO"] and next1 != "A"
BreaksPattern(next1, next2, next3) ==
  /\ <<next1, next2, next3>> # <<"N", "SD", "DO">>
  /\ next1 # "A"

\* item k of row i is an N whose three following rows are inspected
Inspected(rows, i, k) ==
  /\ DayAssignments(rows[i])[k][2] = "N"
  /\ HasThreeFollowing(rows, i)

\* inspecting item k of row i raises KeyError: a following row has no
\* "assignments", or a violation is recorded for a row that has no "date"
InspectionRaises(rows, i, k) ==
  /\ Inspected(rows, i, k)
  /\ \/ \E j \in (i + 1)..(i + 3) : "assignments" \notin DOMAIN rows[j]
     \/ LET code == DayAssignments(rows[i])[k][1]
        IN /\ BreaksPattern(NextShift(rows, i + 1, code), NextShift(rows, i + 2, code),
                            NextShift(rows, i + 3, code))
           /\ "date" \notin DOMAIN rows[i]

\* item k of row i is recorded as a violation
IsViolation(rows, i, k) ==
  /\ Inspected(rows, i, k)
  /\ LET code == DayAssignments(rows[i])[k][1]
     IN BreaksPattern(NextShift(rows, i + 1, code), NextShift(rows, i + 2, code),
                      NextShift(rows, i + 3, code))

\* the record appended to violations (lines 630-636)
Violation(rows, i, k) ==
  LET code == DayAssignments(rows[i])[k][1]
  IN [ type |-> "night_pattern",
       staff |-> code,
       date |-> rows[i].date,
       expected |-> "N,SD,DO",
       actual |-> << NextShift(rows, i + 1, code), ",", NextShift(rows, i + 2, code), ",",
                     NextShift(rows, i + 3, code) >> ]

\* the violations of one row, in the order of its items
RowViolations(rows, i) ==
  LET items == DayAssignments(rows[i])
      Flagged(k) == IsViolation(rows, i, k)
      hits == SelectSeq([k \in 1..Len(items) |-> k], Flagged)
  IN [h \in 1..Len(hits) |-> Violation(rows, i, hits[h])]

\* the violations of rows 1..n, in row order
RECURSIVE NightPatternViolations(_, _)
NightPatternViolations(rows, n) ==
  IF n = 0 THEN <<>>
  ELSE NightPatternViolations(rows, n - 1) \o RowViolations(rows, n)

ValidateRaises(req) ==
  /\ InSeq("night_pattern", req.rules)
  /\ LET rows == RequestRoster(req)
     IN \E i \in 1..Len(rows) : \E k \in 1..Len(DayAssignments(rows[i])) :
          InspectionRaises(rows, i, k)

validate_roster(req) ==
  IF ValidateRaises(req) THEN [error |-> "KeyError"]
  ELSE LET rows == RequestRoster(req)
           violations == IF InSeq("night_pattern", req.rules)
                           THEN NightPatternViolations(rows, Len(rows))
                           ELSE <<>>
       IN [ valid |-> Len(violations) = 0,
            violations |-> violations,
            checks_performed |-> req.rules ]

Validate ==
  /\ request # NoValue
  /\ response = NoValue
  /\ response' = validate_roster(request)
  /\ UNCHANGED <<request, engineVars, callVars, leaveVars>>

(***************************************************************************)
(* SpecValidate: validate_roster applied to one grid of two members and up *)
(* to MaxRows days; the cells of S1 range over GridCodes, S2 holds one of  *)
(* a few columns; a few grids have one damaged row.                        *)
(***************************************************************************)
GridCodes == {"N", "SD", "DO", "OH", "A"}

\* ShiftValidateRequest.rules: the default, and a list without night_pattern
RuleLists == { <<"night_pattern", "leave_compliance", "sunday_rule">>, <<"leave_compliance">> }

\* columns of the second member
OtherColumns(n) ==
  { [i \in 1..n |-> "OH"],
    [i \in 1..n |-> IF i = 1 THEN "N" ELSE "DO"] }

GridRow(i, c1, c2) ==
  [ date |-> isoformat(Date(FirstYear, 4, i)),
    assignments |-> << <<"S1", c1>>, <<"S2", c2>> >> ]

Grid(n, col1, col2) == [i \in 1..n |-> GridRow(i, col1[i], col2[i])]

\* row i without one of its parts
Damaged(row, kind) ==
  IF kind = "no_assignments" THEN [date |-> row.date]
  ELSE IF kind = "no_date" THEN [assignments |-> row.assignments]
  ELSE [date |-> row.date, assignments |-> << row.assignments[2] >>]

DamageKinds == {"no_assignments", "no_date", "no_entry"}

\* columns of S1 of the damaged grids
DamagedColumns == { <<"N", "N", "SD", "DO", "OH">>, <<"N", "OH", "DO", "N", "OH">> }

DamagedGrids ==
  { [i \in 1..5 |-> IF i = r THEN Damaged(GridRow(i, col[i], "OH"), kind)
                    ELSE GridRow(i, col[i], "OH")] :
      r \in 1..5, kind \in DamageKinds, col \in DamagedColumns }

InitValidate ==
  /\ EngineInit([db |-> STAFF_DB, leave |-> LEAVE_2026])
  /\ CallIdle
  /\ LeaveIdle
  /\ response = NoValue
  /\ \E rules \in RuleLists :
       \/ \E n \in 1..MaxRows : \E col1 \in [1..n -> GridCodes] : \E col2 \in OtherColumns(n) :
            request = [roster_data |-> [roster |-> Grid(n, col1, col2)], rules |-> rules]
       \/ \E g \in DamagedGrids :
            request = [roster_data |-> [roster |-> g], rules |-> rules]

NextValidate == Validate

SpecValidate == InitValidate /\ [][NextValidate]_vars

(***************************************************************************)
(* SpecLeave: is_on_leave called on an engine whose leave table holds up   *)
(* to MaxPeriods periods with dates among ProbeDates.                      *)
(***************************************************************************)
ProbeDates == { Date(2026, 12, 8), Date(2026, 12, 25), Date(2027, 1, 5), Date(2027, 7, 18) }

ProbePeriods ==
  { [code |-> "S1", start |-> isoformat(a), end |-> isoformat(b)] : a \in ProbeDates, b \in ProbeDates }
    \cup { [code |-> "S2", start |-> Iso(2026, 12, 8), end |-> Iso(2027, 7, 18)],
           [code |-> "S2", start |-> Iso(2027, 1, 5), end |-> Iso(2026, 12, 25)] }

ProbeStaff == {"S1", "S2", "S3"}

IsOnLeaveCall(staff_code, current_date) ==
  /\ query' = [staff_code |-> staff_code, current_date |-> current_date]
  /\ answer' = [value |-> is_on_leave(staff_code, current_date)]
  /\ UNCHANGED <<engineVars, callVars, validateVars>>

InitLeave ==
  /\ staff = DictByCode(SINGLE_DB)
  /\ \E n \in 0..MaxPeriods : \E t \in [1..n -> ProbePeriods] : leave_records = t
  /\ CallIdle
  /\ ValidateIdle
  /\ LeaveIdle

NextLeave == \E staff_code \in ProbeStaff, current_date \in ProbeDates : IsOnLeaveCall(staff_code, current_date)

SpecLeave == InitLeave /\ [][NextLeave]_vars

(***************************************************************************)
(* Vocabulary of the properties                                            *)
(***************************************************************************)
DutyCodes == {"OH", "PM", "N", "SD", "DO", "A", "OH+EMD", "OH+BIMA"}

\* the duty code of member code in row i (1-based) of a roster
RowCode(rows, i, code) == Lookup(rows[i].assignments, code)

\* number of cells of a roster that hold duty code c
CellsHolding(rows, c) ==
  Cardinality({<<i, k>> \in (1..Len(rows)) \X (1..Len(staff)) :
                 k <= Len(rows[i].assignments) /\ rows[i].assignments[k][2] = c})

RECURSIVE SumOf(_, _)
SumOf(f, keys) ==
  IF keys = {} THEN 0
  ELSE LET k == CHOOSE x \in keys : TRUE IN f[k] + SumOf(f, keys \ {k})

\* the night phase is over
NightPhaseOver == pc \in {"fill", "stats", "done"}

\* cells d .. d+3 (0-based) of a member hold N, N, SD, DO and lie inside the month
BlockAt(sched, code, d, n) ==
  /\ d >= 0
  /\ d + 3 < n
  /\ Cell(sched, code, d) = "N"
  /\ Cell(sched, code, d + 1) = "N"
  /\ Cell(sched, code, d + 2) = "SD"
  /\ Cell(sched, code, d + 3) = "DO"

\* the engine was built over a single night-eligible, night-predominant member
\* and an empty leave table
SingleNightMember ==
  /\ Len(staff) = 1
  /\ leave_records = <<>>
  /\ IsNightCandidate(StaffCodes[1])
  /\ PrefType(get_staff_preference(StaffCodes[1])) = "night_predominant"

(***************************************************************************)
(* C1: every generate call with a month in 1..12 returns; the roster has   *)
(* one row per day of the month, in date order from day 1, and every row   *)
(* holds exactly one duty code for every staff identifier and for nobody   *)
(* else.                                                                   *)
(***************************************************************************)
C1_GridComplete ==
  /\ pc = "error" => month \notin 1..12
  /\ pc = "done" =>
       /\ month \in 1..12
       /\ Len(result.roster) = MonthLength(year, month)
       /\ \A i \in 1..Len(result.roster) :
            LET row == result.roster[i]
            IN /\ row.day_number = i
               /\ row.date = isoformat(Date(year, month, i))
               /\ KeySet(row.assignments) = StaffSet
               /\ \A code \in StaffSet :
                    Cardinality({k \in 1..Len(row.assignments) : row.assignments[k][1] = code}) = 1
               /\ \A k \in 1..Len(row.assignments) : row.assignments[k][2] \in DutyCodes

\* a roster of a 29-day February has been returned
C1_Witness ==
  /\ pc = "done"
  /\ month = 2
  /\ Len(result.roster) = 29
  /\ Len(staff) > 1

(***************************************************************************)
(* C2: in a returned roster, a member who is on leave on a date holds A on *)
(* that date.                                                              *)
(***************************************************************************)
C2_LeaveIsAbsence ==
  pc = "done" =>
    \A i \in 1..Len(result.roster) : \A code \in StaffSet :
      is_on_leave(code, Date(year, month, i)) => RowCode(result.roster, i, code) = "A"

\* a returned roster in which a member who worked a night sequence is on leave
\* on another day, and a member on leave on a weekday holds A
C2_Witness ==
  /\ pc = "done"
  /\ \E code \in DOMAIN night_counts :
       /\ night_counts[code] > 0
       /\ \E i \in 1..Len(result.roster) :
            /\ is_on_leave(code, Date(year, month, i))
            /\ weekday(Date(year, month, i)) < 5
            /\ RowCode(result.roster, i, code) = "A"

(***************************************************************************)
(* C3: once a night sequence has been started for a member at day d, the   *)
(* cells d .. d+3 of the member hold N, N, SD, DO in the schedule from     *)
(* then on, and in every row of the roster that has been built.            *)
(***************************************************************************)
SequencePattern == <<"N", "N", "SD", "DO">>

C3_SequenceKept ==
  \A st \in starts : \A k \in 0..3 :
    /\ st[2] + k < days
    /\ Cell(schedule, st[1], st[2] + k) = SequencePattern[k + 1]
    /\ st[2] + k + 1 <= Len(roster) =>
         RowCode(roster, st[2] + k + 1, st[1]) = SequencePattern[k + 1]
    /\ pc = "done" => RowCode(result.roster, st[2] + k + 1, st[1]) = SequencePattern[k + 1]

\* a returned roster of a member with two sequences and a leave in the same month
C3_Witness ==
  /\ pc = "done"
  /\ \E st1 \in starts, st2 \in starts :
       /\ st1[1] = st2[1]
       /\ st1[2] < st2[2]
       /\ \E i \in 1..days : is_on_leave(st1[1], Date(year, month, i))

(***************************************************************************)
(* C4: a sequence is never started on a Sunday, nor on a day d unless      *)
(* d, d+1, d+2, d+3 are all days of the month.                             *)
(***************************************************************************)
C4_StartDays ==
  \A st \in starts :
    /\ weekday(Date(year, month, st[2] + 1)) # 6
    /\ st[2] + 1 >= 1
    /\ st[2] + 4 <= MonthLength(year, month)

\* the night phase has passed a Sunday with a free candidate, and the last
\* sequence of the month ends on its last day
C4_Witness ==
  /\ NightPhaseOver
  /\ \E st \in starts : st[2] + 4 = MonthLength(year, month)
  /\ \E d \in 0..(days - 4) : \E code \in DOMAIN night_counts :
       /\ weekday(Date(year, month, d + 1)) = 6
       /\ \A k \in 0..3 : Cell(schedule, code, d + k) \notin {"N", "SD"}
       /\ ~WindowOnLeave(code, d)
       /\ (d = 0 \/ Cell(schedule, code, d - 1) # "DO")

(***************************************************************************)
(* C5: with a single night-eligible, night-predominant member and no       *)
(* leave, the night phase of a 30-day month leaves at least one complete   *)
(* N, N, SD, DO block; and for every table, when the night phase is over   *)
(* every cell holding N or SD belongs to a complete block inside the month.*)
(***************************************************************************)
C5_CompleteBlocks ==
  NightPhaseOver =>
    /\ (SingleNightMember /\ days = 30) =>
         \E d \in 0..(days - 1) : BlockAt(schedule, StaffCodes[1], d, days)
    /\ \A code \in StaffSet : \A d \in 0..(days - 1) :
         /\ Cell(schedule, code, d) = "N" =>
              (BlockAt(schedule, code, d, days) \/ BlockAt(schedule, code, d - 1, days))
         /\ Cell(schedule, code, d) = "SD" => BlockAt(schedule, code, d - 2, days)

\* April 2026 (30 days, starts on a Wednesday) with the single member
C5_Witness ==
  /\ NightPhaseOver
  /\ SingleNightMember
  /\ month = 4
  /\ year = 2026
  /\ days = 30
  /\ weekday(Date(year, month, 1)) = 2
  /\ BlockAt(schedule, StaffCodes[1], 0, days)

(***************************************************************************)
(* C6: shift_distribution[c] is the number of cells of the returned grid   *)
(* that hold c, and the values of shift_distribution add up to             *)
(* days_in_month x staff_count.                                            *)
(***************************************************************************)
C6_ShiftDistribution ==
  pc = "done" =>
    LET dist == result.shift_distribution
    IN /\ \A c \in DutyCodes \cup DOMAIN dist :
            CellsHolding(result.roster, c) = (IF c \in DOMAIN dist THEN dist[c] ELSE 0)
       /\ SumOf(dist, DOMAIN dist) = MonthLength(year, month) * Len(staff)

\* a returned roster holding at least five different duty codes
C6_Witness ==
  /\ pc = "done"
  /\ Cardinality(DOMAIN result.shift_distribution) >= 5
  /\ result.shift_distribution["N"] > 0

(***************************************************************************)
(* C10: two generate calls with the same arguments on one engine return    *)
(* the same grid, shift distribution and night distribution, whatever was  *)
(* called in between; a call starts from an empty grid and zero counters;  *)
(* no step changes the staff table or the leave table.                     *)
(***************************************************************************)
C10_SameOutcome ==
  \A i \in 1..Len(history) : \A j \in 1..Len(history) :
    (history[i].month = history[j].month /\ history[i].year = history[j].year)
      => history[i].outcome = history[j].outcome

C10_FreshStart ==
  (pc = "night" /\ day = 0) =>
    /\ \A code \in StaffSet : \A d \in 0..(days - 1) : Cell(schedule, code, d) = None
    /\ \A code \in DOMAIN night_counts : night_counts[code] = 0
    /\ roster = <<>>

C10_Deterministic ==
  /\ [](C10_SameOutcome /\ C10_FreshStart)
  /\ [][staff' = staff /\ leave_records' = leave_records]_vars

\* the same arguments were used by the first and the third call, with another
\* month in between, and nights were worked
C10_Witness ==
  /\ Len(history) = 3
  /\ history[1].month = history[3].month
  /\ history[2].month # history[1].month
  /\ \E code \in DOMAIN history[3].outcome.night_shift_distribution :
       history[3].outcome.night_shift_distribution[code] > 0

(***************************************************************************)
(* C7: validate with the night_pattern rule reports no violation for a     *)
(* member who holds N on a day and N, SD, DO on the three following days   *)
(* and N nowhere else; with the SD of that block changed to OH it reports  *)
(* exactly one violation for the member, dated at the first N.             *)
(***************************************************************************)
\* every row has its date and an assignment for both members
WellFormedGrid(rows) ==
  \A i \in 1..Len(rows) :
    /\ DOMAIN rows[i] = {"date", "assignments"}
    /\ KeySet(rows[i].assignments) = {"S1", "S2"}

\* rows d .. d+3 (1-based) of the member hold N, N, third, DO, and no other row holds N
HoldsBlock(rows, code, d, third) ==
  /\ d + 3 <= Len(rows)
  /\ RowCode(rows, d, code) = "N"
  /\ RowCode(rows, d + 1, code) = "N"
  /\ RowCode(rows, d + 2, code) = third
  /\ RowCode(rows, d + 3, code) = "DO"
  /\ \A i \in 1..Len(rows) : i \notin {d, d + 1} => RowCode(rows, i, code) # "N"

ViolationsOf(resp, code) == {i \in 1..Len(resp.violations) : resp.violations[i].staff = code}

C7_BlockAccepted ==
  (/\ response # NoValue
   /\ InSeq("night_pattern", request.rules)
   /\ WellFormedGrid(RequestRoster(request)))
  => LET rows == RequestRoster(request)
     IN /\ "violations" \in DOMAIN response
        /\ \A d \in 1..Len(rows) :
             /\ HoldsBlock(rows, "S1", d, "SD") => ViolationsOf(response, "S1") = {}
             /\ HoldsBlock(rows, "S1", d, "OH") =>
                  /\ Cardinality(ViolationsOf(response, "S1")) = 1
                  /\ \A i \in ViolationsOf(response, "S1") :
                       response.violations[i].date = rows[d].date

(***************************************************************************)
(* C8: a leave period whose start is later than its end puts the member on *)
(* leave on every date from the start on and on every date up to the end;  *)
(* the period 2026-12-08 / 2027-07-18 covers 2026-12-25 and 2027-01-05.    *)
(* C8_WrapByDate reads "later" as the claim does, by date; C8_WrapByYear   *)
(* reads it by calendar year (start year later than end year).             *)
(***************************************************************************)
PeriodStart(i) == fromisoformat(leave_records[i].start)

PeriodEnd(i) == fromisoformat(leave_records[i].end)

\* the queried date lies at or after the start, or at or before the end, of period i
OutsideGap(i) ==
  \/ toordinal(query.current_date) >= toordinal(PeriodStart(i))
  \/ toordinal(query.current_date) <= toordinal(PeriodEnd(i))

C8_Example ==
  \A i \in 1..Len(leave_records) :
    (/\ leave_records[i].code = query.staff_code
     /\ leave_records[i].start = Iso(2026, 12, 8)
     /\ leave_records[i].end = Iso(2027, 7, 18)
     /\ query.current_date \in {Date(2026, 12, 25), Date(2027, 1, 5)})
    => answer.value = TRUE

C8_WrapByDate ==
  query # NoValue =>
    /\ \A i \in 1..Len(leave_records) :
         (/\ leave_records[i].code = query.staff_code
          /\ toordinal(PeriodStart(i)) > toordinal(PeriodEnd(i))
          /\ OutsideGap(i))
         => answer.value = TRUE
    /\ C8_Example

C8_WrapByYear ==
  query # NoValue =>
    /\ \A i \in 1..Len(leave_records) :
         (/\ leave_records[i].code = query.staff_code
          /\ PeriodStart(i).year > PeriodEnd(i).year
          /\ OutsideGap(i))
         => answer.value = TRUE
    /\ C8_Example

\* the only period of the table starts in a later year than it ends, and the
\* queried date, after its start, is answered as on leave
C8_Witness ==
  /\ query # NoValue
  /\ Len(leave_records) = 1
  /\ leave_records[1].code = query.staff_code
  /\ PeriodStart(1).year > PeriodEnd(1).year
  /\ toordinal(query.current_date) > toordinal(PeriodStart(1))
  /\ answer.value = TRUE

(***************************************************************************)
(* C9: when every period of the queried identifier has start <= end,       *)
(* is_on_leave                                                             *)
(* answers true exactly when some period of the queried identifier has     *)
(* start <= date <= end; it answers false for an identifier no period      *)
(* names, always answers, and changes nothing of the engine.               *)
(***************************************************************************)
\* every period of the queried identifier has start <= end
OrdinaryTable ==
  \A i \in 1..Len(leave_records) :
    leave_records[i].code = query.staff_code =>
      toordinal(PeriodStart(i)) <= toordinal(PeriodEnd(i))

CoveredBySomePeriod ==
  \E i \in 1..Len(leave_records) :
    /\ leave_records[i].code = query.staff_code
    /\ toordinal(PeriodStart(i)) <= toordinal(query.current_date)
    /\ toordinal(query.current_date) <= toordinal(PeriodEnd(i))

C9_Answer ==
  query # NoValue =>
    /\ answer.value \in BOOLEAN
    /\ OrdinaryTable => (answer.value <=> CoveredBySomePeriod)

C9_InclusiveScan ==
  /\ []C9_Answer
  /\ [][UNCHANGED <<engineVars, callVars, validateVars>>]_vars

\* two ordinary periods of the queried member; the first does not cover the
\* date, the second ends on it
C9_Witness ==
  /\ query # NoValue
  /\ OrdinaryTable
  /\ Len(leave_records) = 2
  /\ leave_records[1].code = query.staff_code
  /\ leave_records[2].code = query.staff_code
  /\ toordinal(PeriodEnd(1)) < toordinal(query.current_date)
  /\ toordinal(PeriodStart(2)) < toordinal(query.current_date)
  /\ PeriodEnd(2) = query.current_date
  /\ answer.value = TRUE

(***************************************************************************)
(* C11: generate called with a month outside 1..12 ends in an error        *)
(* outcome before any grid cell is computed, and returns no roster,        *)
(* neither complete nor partial.                                           *)
(***************************************************************************)
C11_InvalidPeriod ==
  (pc # "idle" /\ month \notin 1..12) =>
    /\ pc = "error"
    /\ "error" \in DOMAIN result
    /\ "roster" \notin DOMAIN result
    /\ schedule = <<>>
    /\ roster = <<>>
    /\ starts = {}
    /\ Len(history) > 0
    /\ history[Len(history)].month = month
    /\ history[Len(history)].outcome = result

\* month 0: the first day of the following month exists, the month itself does not
C11_Witness ==
  /\ pc = "error"
  /\ month = 0
  /\ "error" \in DOMAIN result

(***************************************************************************)
(* C12: validate never raises on a malformed grid: a day record without    *)
(* its assignments or its date, or a following day without an entry for    *)
(* the member, counts as a missing value, and validate still returns a     *)
(* validity flag and a violation list.                                     *)
(***************************************************************************)
C12_NeverRaises ==
  response # NoValue =>
    /\ "error" \notin DOMAIN response
    /\ "valid" \in DOMAIN response
    /\ "violations" \in DOMAIN response

(***************************************************************************)
(* C13: in every returned roster a member holds N or SD on some day only   *)
(* if their night-eligibility flag is set and their preference variant is  *)
(* neither strict_oh nor pm_predominant; a strict_oh or pm_predominant     *)
(* member never holds N or SD, flagged or not.                             *)
(***************************************************************************)
NightFlagSet(code) ==
  LET s == Lookup(staff, code)
  IN "night_eligible" \in DOMAIN s /\ s.night_eligible = TRUE

OptsOutOfNights(code) ==
  PrefType(get_staff_preference(code)) \in {"strict_oh", "pm_predominant"}

HoldsNightDuty(rows, code) ==
  \E i \in 1..Len(rows) : RowCode(rows, i, code) \in {"N", "SD"}

C13_NightDutyOnlyForCandidates ==
  pc = "done" =>
    \A code \in StaffSet :
      HoldsNightDuty(result.roster, code) => (NightFlagSet(code) /\ ~OptsOutOfNights(code))

\* a returned roster with night duty in it, over a table with a flagged
\* strict_oh member and a flagged pm_predominant member
C13_Witness ==
  /\ pc = "done"
  /\ \E code \in StaffSet : HoldsNightDuty(result.roster, code)
  /\ \E code \in StaffSet :
       /\ NightFlagSet(code)
       /\ PrefType(get_staff_preference(code)) = "strict_oh"
       /\ ~HoldsNightDuty(result.roster, code)
  /\ \E code \in StaffSet :
       /\ NightFlagSet(code)
       /\ PrefType(get_staff_preference(code)) = "pm_predominant"
       /\ ~HoldsNightDuty(result.roster, code)

(***************************************************************************)
(* Vocabulary of the preference claims: the cells of a returned roster     *)
(* that the preference fill decides.                                       *)
(***************************************************************************)
\* members of one preference variant
OfVariant(v) == {code \in StaffSet : PrefType(get_staff_preference(code)) = v}

\* day i (1-based) of the month of the call is not a leave day of the member
\* and the night phase left the member's cell empty
DecidedByPreference(code, i) ==
  /\ ~is_on_leave(code, Date(year, month, i))
  /\ schedule[code][i] = None

OnSaturday(i) == weekday(Date(year, month, i)) = 5

OnSunday(i) == weekday(Date(year, month, i)) = 6

\* the weekend_day of the member's staff record, None when it names none
DesignatedDay(code) ==
  LET s == Lookup(staff, code)
  IN IF "shift_preference" \in DOMAIN s /\ "weekend_day" \in DOMAIN s.shift_preference
       THEN s.shift_preference.weekend_day
       ELSE None

(***************************************************************************)
(* C14: for a bima_predominant member every cell that is neither on leave  *)
(* nor pre-filled by the night phase is OH+BIMA on a weekday, DO on a      *)
(* Saturday, and on a Sunday OH if the designated weekend day is Sunday    *)
(* and DO otherwise.                                                       *)
(***************************************************************************)
C14_BimaPattern ==
  pc = "done" =>
    \A code \in OfVariant("bima_predominant") : \A i \in 1..Len(result.roster) :
      DecidedByPreference(code, i) =>
        RowCode(result.roster, i, code) =
          IF OnSunday(i) THEN (IF DesignatedDay(code) = "Sunday" THEN "OH" ELSE "DO")
          ELSE IF OnSaturday(i) THEN "DO"
          ELSE "OH+BIMA"

(***************************************************************************)
(* C15: a strict_oh member holds only OH, DO or A in every returned        *)
(* roster: A on leave, otherwise OH on every weekday, OH on Saturday       *)
(* (Sunday) exactly when the designated weekend day is Saturday (Sunday),  *)
(* and DO on the other weekend day, DO on both when none is designated.    *)
(***************************************************************************)
C15_StrictOfficeHours ==
  pc = "done" =>
    \A code \in OfVariant("strict_oh") : \A i \in 1..Len(result.roster) :
      LET c == RowCode(result.roster, i, code)
      IN /\ c \in {"OH", "DO", "A"}
         /\ schedule[code][i] = None
         /\ c = IF is_on_leave(code, Date(year, month, i)) THEN "A"
                ELSE IF OnSaturday(i) THEN (IF DesignatedDay(code) = "Saturday" THEN "OH" ELSE "DO")
                ELSE IF OnSunday(i) THEN (IF DesignatedDay(code) = "Sunday" THEN "OH" ELSE "DO")
                ELSE "OH"

\* a returned roster in which a night-flagged strict_oh member designated for
\* Saturday works a Saturday and is off on a Sunday
C15_Witness ==
  /\ pc = "done"
  /\ \E code \in OfVariant("strict_oh") :
       /\ NightFlagSet(code)
       /\ DesignatedDay(code) = "Saturday"
       /\ \E i \in 1..Len(result.roster) : OnSaturday(i) /\ RowCode(result.roster, i, code) = "OH"
       /\ \E i \in 1..Len(result.roster) : OnSunday(i) /\ RowCode(result.roster, i, code) = "DO"

(***************************************************************************)
(* C16: for an emd_predominant member every cell that is neither on leave  *)
(* nor pre-filled by the night phase is OH on a Sunday when the designated *)
(* weekend day is Sunday, DO on a Saturday, and on every other day OH+EMD  *)
(* on every 4th day index (OH otherwise) for a member doing night-EMD      *)
(* duty, on every 2nd day index (OH otherwise) for the others.             *)
(* C16_EmdByFlag takes "doing night-EMD duty" as the claim does: the       *)
(* night_emd flag is set.  C16_EmdByFlagAndCandidacy takes it as: the flag *)
(* is set and the member is a night candidate.                             *)
(***************************************************************************)
\* the night_emd flag of the member's staff record
NightEmdFlag(code) ==
  LET s == Lookup(staff, code)
  IN /\ "shift_preference" \in DOMAIN s
     /\ "night_emd" \in DOMAIN s.shift_preference
     /\ s.shift_preference.night_emd = TRUE

\* OH+EMD on the day indexes (0-based) that are multiples of step, OH on the others
Rotation(i, step) == IF (i - 1) % step = 0 THEN "OH+EMD" ELSE "OH"

EmdPattern(code, i, every_fourth) ==
  IF OnSunday(i) /\ DesignatedDay(code) = "Sunday" THEN "OH"
  ELSE IF OnSaturday(i) THEN "DO"
  ELSE IF every_fourth THEN Rotation(i, 4)
  ELSE Rotation(i, 2)

C16_EmdByFlag ==
  pc = "done" =>
    \A code \in OfVariant("emd_predominant") : \A i \in 1..Len(result.roster) :
      DecidedByPreference(code, i) =>
        RowCode(result.roster, i, code) = EmdPattern(code, i, NightEmdFlag(code))

C16_EmdByFlagAndCandidacy ==
  pc = "done" =>
    \A code \in OfVariant("emd_predominant") : \A i \in 1..Len(result.roster) :
      DecidedByPreference(code, i) =>
        RowCode(result.roster, i, code) =
          EmdPattern(code, i, NightEmdFlag(code) /\ NightFlagSet(code))

\* a flagged member who is a night candidate holds OH on a day index that is
\* a multiple of 2 but not of 4, and OH+EMD on a multiple of 4
C16_Witness ==
  /\ pc = "done"
  /\ \E code \in OfVariant("emd_predominant") :
       /\ NightEmdFlag(code)
       /\ NightFlagSet(code)
       /\ \E i \in 1..Len(result.roster) :
            /\ DecidedByPreference(code, i)
            /\ ~OnSaturday(i)
            /\ (i - 1) % 4 = 2
            /\ RowCode(result.roster, i, code) = "OH"
       /\ \E i \in 1..Len(result.roster) :
            /\ DecidedByPreference(code, i)
            /\ ~OnSaturday(i)
            /\ (i - 1) % 4 = 0
            /\ RowCode(result.roster, i, code) = "OH+EMD"

(***************************************************************************)
(* C17: on every day of the month at most 2 members are newly committed to *)
(* a night sequence on that day, however many candidates are free.         *)
(***************************************************************************)
\* members committed on day d (0-based) according to the log of the night phase
CommittedOn(d) == {code \in StaffSet : <<code, d>> \in starts \cup continued}

\* members whose N,N,SD,DO block begins on day d in the schedule
BlocksBeginningOn(d) ==
  {code \in StaffSet : days > 0 /\ BlockAt(schedule, code, d, days)}

\* the candidate is free on d .. d+3: inside the month, cells empty, no leave
FreeWindow(code, d) ==
  /\ FitsInMonth(d, days)
  /\ \A k \in 0..3 :
       /\ Cell(schedule, code, d + k) = None
       /\ ~is_on_leave(code, Date(year, month, d + k + 1))

C17_CoverageCap ==
  /\ assigned_tonight <= 2
  /\ \A d \in 0..(days - 1) :
       /\ Cardinality(CommittedOn(d)) <= 2
       /\ Cardinality(BlocksBeginningOn(d)) <= 2

\* two members are committed on the current day and the next candidate in
\* line is free on all four days
C17_Witness ==
  /\ pc = "candidate"
  /\ Cardinality(CommittedOn(day)) = 2
  /\ ci <= Len(candidates)
  /\ FreeWindow(candidates[ci], day)

(***************************************************************************)
(* C18: on each day the night phase considers the priority candidates      *)
(* (night_predominant or emd_predominant night candidates) in ascending    *)
(* order of their counter as it stands at the start of the day, ties in    *)
(* configuration order, and then the other night candidates in the same    *)
(* way.  Hence a non-priority candidate starts a sequence on day d only if *)
(* every priority candidate started on d or was not free on d, and a       *)
(* candidate starts only if every free candidate of its group with a       *)
(* strictly lower counter also starts on d.                                *)
(***************************************************************************)
NightCandidates == {code \in StaffSet : NightFlagSet(code) /\ ~OptsOutOfNights(code)}

InPriorityGroup(code) ==
  PrefType(get_staff_preference(code)) \in {"night_predominant", "emd_predominant"}

\* position of the member in the staff table
ConfigIndex(code) == CHOOSE k \in 1..Len(staff) : staff[k][1] = code

\* x is considered before y
Precedes(x, y, counts) ==
  \/ InPriorityGroup(x) /\ ~InPriorityGroup(y)
  \/ /\ InPriorityGroup(x) = InPriorityGroup(y)
     /\ \/ counts[x] < counts[y]
        \/ counts[x] = counts[y] /\ ConfigIndex(x) < ConfigIndex(y)

\* at the head of the candidate loop no counter has changed yet on this day
OrderAtDayStart ==
  (pc = "candidate" /\ ci = 1) =>
    /\ SeqSet(candidates) = NightCandidates
    /\ Len(candidates) = Cardinality(NightCandidates)
    /\ \A a \in 1..Len(candidates) : \A b \in 1..Len(candidates) :
         a < b => Precedes(candidates[a], candidates[b], night_counts)

\* a step that starts a sequence for y: the counter of y and of every member
\* that did not start today still hold their values of the start of the day
StartRespectsOrder ==
  (pc = "candidate" /\ starts' # starts) =>
    \A y \in NightCandidates : \A x \in NightCandidates :
      (/\ <<y, day>> \in starts' \ starts
       /\ \/ InPriorityGroup(x) /\ ~InPriorityGroup(y)
          \/ InPriorityGroup(x) = InPriorityGroup(y) /\ night_counts[x] < night_counts[y])
      => (<<x, day>> \in starts \/ ~FreeWindow(x, day))

C18_CandidateOrder == []OrderAtDayStart /\ [][StartRespectsOrder]_vars

\* a day on which a non-priority candidate has started although a priority
\* candidate has not, and on which the counters have put a member of the
\* table behind a later member of the same group
C18_Witness ==
  /\ pc = "candidate"
  /\ \E y \in NightCandidates : \E x \in NightCandidates :
       /\ ~InPriorityGroup(y)
       /\ InPriorityGroup(x)
       /\ <<y, day>> \in starts
       /\ <<x, day>> \notin starts
  /\ \E a \in 1..Len(candidates) : \E b \in 1..Len(candidates) :
       /\ a < b
       /\ InPriorityGroup(candidates[a]) = InPriorityGroup(candidates[b])
       /\ ConfigIndex(candidates[a]) > ConfigIndex(candidates[b])

(***************************************************************************)
(* C19: on every non-Sunday day d with d+3 inside the month, a candidate   *)
(* reached before the cap is exhausted, not on leave on any of d..d+3 and  *)
(* with cells d..d+3 all empty, starts a sequence on d; so if fewer than 2 *)
(* sequences start on d, no night candidate who was free on all of d..d+3  *)
(* is left once day d is processed.                                        *)
(***************************************************************************)
\* the candidate loop examines a candidate (the cap is not exhausted)
ExaminesCandidate ==
  /\ pc = "candidate"
  /\ ci <= Len(candidates)
  /\ assigned_tonight < 2

FreeCandidateStarts ==
  (ExaminesCandidate /\ FreeWindow(candidates[ci], day)) =>
    /\ <<candidates[ci], day>> \in starts'
    /\ BlockAt(schedule', candidates[ci], day, days)

\* days (0-based) of the running call whose night processing is complete
ProcessedDays ==
  IF pc = "night" THEN 0..(day - 1)
  ELSE IF pc = "candidate" THEN 0..(day - 1)
  ELSE IF NightPhaseOver THEN 0..(days - 1)
  ELSE {}

NobodyLeftFree ==
  \A d \in ProcessedDays :
    (~OnSunday(d + 1) /\ Cardinality(CommittedOn(d)) < 2) =>
      \A code \in NightCandidates : ~FreeWindow(code, d)

C19_GreedyStart == []NobodyLeftFree /\ [][FreeCandidateStarts]_vars

\* the night phase is over, three or more night candidates exist, and on
\* some day exactly one of them started
C19_Witness ==
  /\ NightPhaseOver
  /\ Cardinality(NightCandidates) >= 3
  /\ \E d \in ProcessedDays :
       /\ FitsInMonth(d, days)
       /\ Cardinality(CommittedOn(d)) = 1

(***************************************************************************)
(* C20: at every point of the night phase and in the returned night        *)
(* distribution, the counter of each night candidate is determined by the  *)
(* number of night sequences started for that candidate in this run.       *)
(* C20_CounterIsStarts: the counter equals that number (one per start), as *)
(* the claim says.  C20_CounterIsNights: the counter equals twice that     *)
(* number, the number of N cells written for the candidate.                *)
(***************************************************************************)
StartsOf(code) == Cardinality({d \in 0..30 : <<code, d>> \in starts})

\* N cells of the member in the schedule of the night phase
NightCellsOf(code) == Cardinality({i \in 1..days : schedule[code][i] = "N"})

CounterRunning == pc \in {"night", "candidate", "fill", "stats", "done"}

C20_CounterIsStarts ==
  CounterRunning =>
    /\ \A code \in DOMAIN night_counts : night_counts[code] = StartsOf(code)
    /\ pc = "done" => result.night_shift_distribution = night_counts

C20_CounterIsNights ==
  CounterRunning =>
    /\ DOMAIN night_counts = NightCandidates
    /\ \A code \in DOMAIN night_counts :
         /\ night_counts[code] = 2 * StartsOf(code)
         /\ night_counts[code] = NightCellsOf(code)
    /\ pc = "done" => result.night_shift_distribution = night_counts

\* a returned night distribution in which a member with three sequences
\* stands at 6
C20_Witness ==
  /\ pc = "done"
  /\ \E code \in DOMAIN result.night_shift_distribution :
       /\ StartsOf(code) = 3
       /\ result.night_shift_distribution[code] = 6

(***************************************************************************)
(* C21: when the previous-day cell of a candidate is N (second night of a  *)
(* pair), handling the candidate on that day starts no sequence, writes no *)
(* grid cell, changes no counter and takes none of the day's 2 slots; when *)
(* the previous-day cell is SD the candidate starts no sequence that day.  *)
(***************************************************************************)
\* the candidate loop handles a candidate whose cell of the day before holds c
HandlesAfter(c) ==
  /\ ExaminesCandidate
  /\ day > 0
  /\ Cell(schedule, candidates[ci], day - 1) = c

ContinuationIsNoOp ==
  /\ HandlesAfter("N") =>
       /\ schedule' = schedule
       /\ night_counts' = night_counts
       /\ assigned_tonight' = assigned_tonight
       /\ starts' = starts
  /\ HandlesAfter("SD") =>
       /\ starts' = starts
       /\ schedule' = schedule

C21_Continuation == [][ContinuationIsNoOp]_vars

\* the candidate handled last is in the second night of its pair, has not
\* been committed today, and both slots of the day are still open
C21_Witness ==
  /\ pc = "candidate"
  /\ ci > 1
  /\ day > 0
  /\ Cell(schedule, candidates[ci - 1], day - 1) = "N"
  /\ Cell(schedule, candidates[ci - 1], day) = "N"
  /\ <<candidates[ci - 1], day>> \notin starts \cup continued
  /\ assigned_tonight = 0

(***************************************************************************)
(* C22: during the night phase a cell that holds a value is never          *)
(* overwritten, and the preference fill never changes a cell the night     *)
(* phase wrote; so two sequences of one member occupy disjoint days (their *)
(* starts are at least 4 days apart) and no member has more than one       *)
(* active sequence at a time.                                              *)
(***************************************************************************)
CallRunning == pc \in {"night", "candidate", "fill", "stats"}

\* no step of a running call changes a schedule cell that holds a value
CellsWrittenOnce ==
  CallRunning =>
    \A code \in StaffSet : \A i \in 1..days :
      schedule[code][i] # None => schedule'[code][i] = schedule[code][i]

\* every roster row built so far shows the values the night phase wrote
FillKeepsNightCells ==
  pc \in {"fill", "stats", "done"} =>
    \A i \in 1..Len(roster) : \A code \in StaffSet :
      schedule[code][i] # None => RowCode(roster, i, code) = schedule[code][i]

SequencesDisjoint ==
  \A s \in starts : \A t \in starts :
    (s[1] = t[1] /\ s[2] < t[2]) => t[2] - s[2] >= 4

C22_WriteOnce ==
  /\ [](FillKeepsNightCells /\ SequencesDisjoint)
  /\ [][CellsWrittenOnce]_vars

\* a returned roster in which a member went from one sequence straight into
\* the next
C22_Witness ==
  /\ pc = "done"
  /\ \E s \in starts : <<s[1], s[2] + 4>> \in starts

(***************************************************************************)
(* C23: Sundays carry no night duty: in every returned roster no member    *)
(* holds N on a row whose date is a Sunday.                                *)
(***************************************************************************)
C23_NoSundayNight ==
  pc = "done" =>
    \A i \in 1..Len(result.roster) : \A code \in StaffSet :
      OnSunday(i) => RowCode(result.roster, i, code) # "N"

(***************************************************************************)
(* C24: the "continue sequence" branch of the night phase is unreachable:  *)
(* whenever a candidate reaches the look-back on a day d > 0 (not on leave *)
(* on d, cell d empty), its cell d-1 holds neither N nor SD; the branch    *)
(* that writes N, SD, DO unchecked and adds 1 to the counter never         *)
(* executes, and every counter value is even.                              *)
(***************************************************************************)
\* the candidate in hand passes the leave test and the empty-cell test
ReachesLookBack ==
  /\ ExaminesCandidate
  /\ day > 0
  /\ ~is_on_leave(candidates[ci], Date(year, month, day + 1))
  /\ Cell(schedule, candidates[ci], day) = None

C24_ContinueBranchDead ==
  /\ ReachesLookBack =>
       /\ Cell(schedule, candidates[ci], day - 1) \notin {"N", "SD"}
       /\ ~TakesContinueBranch(schedule, candidates[ci], day)
  /\ continued = {}
  /\ \A code \in DOMAIN night_counts : night_counts[code] % 2 = 0

\* a candidate reaches the look-back on the day after the day off of its
\* first sequence
C24_Witness ==
  /\ ReachesLookBack
  /\ Cell(schedule, candidates[ci], day - 1) = "DO"
  /\ night_counts[candidates[ci]] = 2

(***************************************************************************)
(* SpecRoundTrip: one generate call whose returned value is handed to      *)
(* validate_roster as roster_data with the night_pattern rule.             *)
(***************************************************************************)
\* a client posts the roster it received to /validate-roster
SubmitResult ==
  /\ pc = "done"
  /\ request = NoValue
  /\ request' = [roster_data |-> result, rules |-> <<"night_pattern">>]
  /\ UNCHANGED <<response, engineVars, callVars, leaveVars>>

NextRoundTrip ==
  \/ Next
  \/ SubmitResult
  \/ Validate

SpecRoundTrip == Init /\ [][NextRoundTrip]_vars

(***************************************************************************)
(* C25: generator and checker agree: for every month and year the roster   *)
(* returned by generate is reported valid, with zero violations, by        *)
(* validate with the night_pattern rule.                                   *)
(***************************************************************************)
C25_GeneratedIsValid ==
  (pc = "done" /\ response # NoValue) =>
    /\ "valid" \in DOMAIN response
    /\ response.valid = TRUE
    /\ response.violations = <<>>

(***************************************************************************)
(* C26: month-end coverage gap: in every returned roster no sequence       *)
(* starts on any of the last three days of the month and no member holds N *)
(* on either of the last two days of the month.                            *)
(***************************************************************************)
C26_MonthEndGap ==
  /\ \A s \in starts : s[2] + 1 <= days - 3
  /\ pc = "done" =>
       \A code \in StaffSet :
         /\ RowCode(result.roster, days, code) # "N"
         /\ RowCode(result.roster, days - 1, code) # "N"
         /\ \A i \in {days - 2, days - 1, days} :
              ~(/\ RowCode(result.roster, i, code) = "N"
                /\ RowCode(result.roster, i - 1, code) # "N")

\* a returned roster with a sequence started on the fourth day from the end:
\* its second N stands on the third day from the end, its DO on the last day
C26_Witness ==
  /\ pc = "done"
  /\ \E s \in starts :
       /\ s[2] + 1 = days - 3
       /\ RowCode(result.roster, days - 2, s[1]) = "N"
       /\ RowCode(result.roster, days, s[1]) = "DO"

(***************************************************************************)
(* C27: in the result of generate, night_shift_distribution has an entry   *)
(* exactly for the night candidates, and each value equals the number of   *)
(* cells of that member holding N in the final grid (no N written by the   *)
(* night phase is replaced by A or by a preference code).                  *)
(***************************************************************************)
\* rows of the roster in which the member holds N
NightRowsOf(rows, code) == {i \in 1..Len(rows) : RowCode(rows, i, code) = "N"}

C27_NightDistribution ==
  pc = "done" =>
    /\ DOMAIN result.night_shift_distribution = NightCandidates
    /\ \A code \in NightCandidates :
         result.night_shift_distribution[code] = Cardinality(NightRowsOf(result.roster, code))
    /\ \A code \in StaffSet \ NightCandidates : NightRowsOf(result.roster, code) = {}

\* a returned result over a table with members who are not night candidates,
\* in which one candidate stands at 0 and another at 4 or more
C27_Witness ==
  /\ pc = "done"
  /\ StaffSet \ NightCandidates # {}
  /\ \E code \in NightCandidates : result.night_shift_distribution[code] = 0
  /\ \E code \in NightCandidates :
       /\ result.night_shift_distribution[code] >= 4
       /\ Cardinality(NightRowsOf(result.roster, code)) >= 4
====
